---- MODULE Spec2Model ----
(***************************************************************************)
(* Model of flagit.Interface (src/src/flagit/flagit.py): the ISMN quality  *)
(* control engine.  A frame is a sequence of rows; a row is a record with  *)
(* one field per column.  Soil moisture and the ancillary channels are     *)
(* integers (percent by volume, degrees, hundredths of a mm), so every *)
(* ratio and variance of the detectors is decided exactly by integer       *)
(* cross-multiplication.  deriv1 is held in halves (2 * deriv1), deriv2 in *)
(* units.  Flag codes are strings: "C01".."G" for the alphabetic mode and  *)
(* "1".."14" for the integers 1..14 of the flag_numbers mode.              *)
(***************************************************************************)
EXTENDS Integers, Sequences, FiniteSets, TLC

VARIABLES
    pc,          \* "new" | "idle" | "running" | "failed"
    inp,         \* the object handed to the constructor
    data,        \* self.data: the engine's frame (sequence of rows)
    cols,        \* self.data.columns, in order
    variable,    \* self.variable
    sat_point,   \* self.sat_point (None or a number)
    depth_from,  \* self.depth_from (None or centimetres)
    keys,        \* run(): keys = self.data.keys() at the start of the call
    todo,        \* run(): the keys still to dispatch
    numbers,     \* run(): flag_numbers of the current call
    call,        \* run(): the arguments of the current call
    applied,     \* the detectors dispatched so far by the current call
    ret,         \* the frame returned by the last completed run call
    ret1,        \* the frame returned by the first completed run call
    err,         \* the exception that ended the constructor or the last call
    runs         \* number of run calls started

vars == <<pc, inp, data, cols, variable, sat_point, depth_from, keys, todo,
          numbers, call, applied, ret, ret1, err, runs>>

----------------------------------------------------------------------------
(* Values *)

NaN == -999983
None == -999979
QNaN == {"nan"}

IsNaN(v) == v = NaN

Abs(v) == IF v < 0 THEN -v ELSE v

Max2(a, b) == IF a >= b THEN a ELSE b

Min2(a, b) == IF a <= b THEN a ELSE b

RECURSIVE SumSeq(_)
SumSeq(s) == IF s = <<>> THEN 0 ELSE Head(s) + SumSeq(Tail(s))

Range(s) == {s[k] : k \in DOMAIN s}

----------------------------------------------------------------------------
(* Frames *)

Columns == <<"soil_moisture", "soil_temperature", "air_temperature",
             "gldas_soil_temperature", "precipitation", "gldas_precipitation">>

HasCol(cs, c) == \E k \in DOMAIN cs : cs[k] = c

AddCols(cs, new) ==
    LET RECURSIVE Go(_, _)
        Go(acc, rest) ==
            IF rest = <<>> THEN acc
            ELSE Go(IF HasCol(acc, Head(rest)) THEN acc ELSE Append(acc, Head(rest)),
                    Tail(rest))
    IN Go(cs, new)

\* A row of the frame: ts is the position on the hourly grid (the index).
Row(ts, sm, st, ta, gst, p, gp) ==
    [ts |-> ts, soil_moisture |-> sm, soil_temperature |-> st,
     air_temperature |-> ta, gldas_soil_temperature |-> gst,
     precipitation |-> p, gldas_precipitation |-> gp,
     qflag |-> QNaN, deriv1 |-> NaN, deriv2 |-> NaN]

\* The row resample('H').asfreq() inserts for a missing hour: every cell NaN.
NaNRow(ts) == Row(ts, NaN, NaN, NaN, NaN, NaN, NaN)

Idx(d) == 1..Len(d)

SelectRows(d, keep) ==
    LET RECURSIVE Go(_)
        Go(k) == IF k > Len(d) THEN <<>>
                 ELSE IF k \in keep THEN <<d[k]>> \o Go(k + 1) ELSE Go(k + 1)
    IN Go(1)

----------------------------------------------------------------------------
(* Inputs: piecewise-constant hourly series a^p b^q c^r, with an optional     *)
(* missing observation and optional ancillary channels.                     *)

Shapes == {<<1, 13, 0>>, <<2, 4, 3>>, <<12, 1, 1>>, <<1, 12, 13>>,
           <<12, 1, 13>>}

Levels == {<<10, 0, 0>>, <<20, 10, 20>>, <<10, 30, 10>>, <<20, 20, 20>>,
           <<0 - 1, 61, 20>>}

Gaps == {0, 2}

Ancillaries == {"none", "all"}

Level(sh, lv, i) ==
    IF i <= sh[1] THEN lv[1] ELSE IF i <= sh[1] + sh[2] THEN lv[2] ELSE lv[3]

\* Ancillary channels: freezing on the first three hours, dry throughout
\* (in situ) and wet throughout (GLDAS).
InputRow(sh, lv, gap, i) ==
    Row(i, IF i = gap THEN NaN ELSE Level(sh, lv, i),
        IF i <= 3 THEN 0 - 5 ELSE 5, IF i <= 3 THEN 0 - 1 ELSE 7,
        IF i <= 3 THEN 0 - 2 ELSE 3, 0, 300)

SoilInput(sh, lv, gap, anc) ==
    [frame |-> TRUE,
     cols |-> IF anc = "all" THEN Columns ELSE <<"soil_moisture">>,
     rows |-> [i \in 1..(sh[1] + sh[2] + sh[3]) |->
                 LET r == InputRow(sh, lv, gap, i)
                 IN IF anc = "all" THEN r
                    ELSE Row(i, r.soil_moisture, NaN, NaN, NaN, NaN, NaN)]]

\* Frames without a soil_moisture column: the first column is the variable.
OtherInput(first) ==
    [frame |-> TRUE,
     cols |-> <<first, "air_temperature">>,
     rows |-> [i \in 1..3 |->
                 [Row(i, NaN, NaN, IF i = 1 THEN 0 - 1 ELSE 7, NaN, NaN, NaN)
                    EXCEPT ![first] = IF i = 2 THEN 0 - 70
                                      ELSE IF i = 3 THEN 70 ELSE 0 - 5]]]

OtherVariables == {"soil_temperature", "gldas_soil_temperature"}

NotAFrame == [frame |-> FALSE, cols |-> <<>>, rows |-> <<>>]

Inputs ==
    {SoilInput(sh, lv, gap, anc) :
        sh \in Shapes, lv \in Levels, gap \in Gaps, anc \in Ancillaries}
    \cup {OtherInput(v) : v \in OtherVariables}
    \cup {NotAFrame}

----------------------------------------------------------------------------
(* Flag codes and the arguments of run *)

AlphaCodes == <<"C01", "C02", "C03", "D01", "D02", "D03", "D04", "D05",
                "D06", "D07", "D08", "D09", "D10", "G">>

NumberCodes == <<"1", "2", "3", "4", "5", "6", "7", "8", "9", "10", "11",
                 "12", "13", "14">>

IsInt(tag) == tag \in Range(NumberCodes)

CodeNum(tag) ==
    CHOOSE k \in 1..14 : AlphaCodes[k] = tag \/ NumberCodes[k] = tag

Alphabet(flag_numbers) ==
    IF flag_numbers THEN Range(NumberCodes) ELSE Range(AlphaCodes)

\* flags_dict of run: the keys, in insertion order, and the method each calls.
\* Neither dictionary has an entry for D08 / 11.
FlagsDictKeys(flag_numbers) ==
    LET codes == IF flag_numbers THEN NumberCodes ELSE AlphaCodes
    IN SelectSeq(codes, LAMBDA c : CodeNum(c) # 11)

Method(key) == AlphaCodes[CodeNum(key)]

\* name: absent, a str, an int, or a list.
NoName == [type |-> "none", v |-> <<>>]
StrName(c) == [type |-> "str", v |-> <<c>>]
IntName(c) == [type |-> "int", v |-> <<c>>]
ListName(l) == [type |-> "list", v |-> l]

AlphaNames ==
    {NoName}
    \cup {StrName(AlphaCodes[k]) : k \in 1..14}
    \cup {ListName(l) : l \in {<<"D07", "D09">>, <<"D09", "D07">>,
                               <<"G", "C01">>, <<"C01", "G">>,
                               <<"D01", "D09">>, <<"D01", "D10">>,
                               <<"D01", "D08">>}}

NumberNames ==
    {NoName, IntName("10"), StrName("C01")}
    \cup {ListName(l) : l \in {<<"10", "12">>, <<"12", "10">>, <<"4", "11">>}}

Call(name, sp, df, fn) ==
    [name |-> name, sat_point |-> sp, depth_from |-> df, flag_numbers |-> fn]

\* The run calls the model draws from.  depth_from is in centimetres.
Calls ==
    {Call(n, None, None, FALSE) : n \in AlphaNames}
    \cup {Call(n, None, None, TRUE) : n \in NumberNames}
    \cup {Call(NoName, sp, df, FALSE) : sp \in {0, 15}, df \in {0, 4, 10}}

\* The calls of a second and later run: the full pipeline.
FullCalls == {Call(NoName, None, None, fn) : fn \in BOOLEAN}

NoCall == Call(NoName, None, None, FALSE)

NoFrame == [cols |-> <<>>, rows |-> <<>>]

----------------------------------------------------------------------------
(* Column access with the missing marker *)

\* The cell of column c at position i; NaN outside the frame (shift).
Cell(d, c, i) == IF i \in Idx(d) THEN d[i][c] ELSE NaN

Sub(a, b) == IF IsNaN(a) \/ IsNaN(b) THEN NaN ELSE a - b

\* Comparisons with the missing marker are false.
Lt(a, b) == ~IsNaN(a) /\ ~IsNaN(b) /\ a < b
Gt(a, b) == ~IsNaN(a) /\ ~IsNaN(b) /\ a > b

\* Python truthiness of sat_point / depth_from: None and 0 are false.
Truthy(v) == v # None /\ v # 0

----------------------------------------------------------------------------
(* Derivative builder *)

\* savgol(x, 3, 2, deriv, mode='nearest'): the window is x[i-1], x[i], x[i+1]
\* with the edge value repeated; a NaN in the window gives NaN.  deriv1 is
\* (x[i+1] - x[i-1]) / 2, held here in halves.
SavgolWindow(d, i) ==
    <<d[Max2(i - 1, 1)].soil_moisture, d[i].soil_moisture,
      d[Min2(i + 1, Len(d))].soil_moisture>>

Savgol1(d, i) ==
    LET w == SavgolWindow(d, i)
    IN IF \E k \in 1..3 : IsNaN(w[k]) THEN NaN ELSE w[3] - w[1]

Savgol2(d, i) ==
    LET w == SavgolWindow(d, i)
    IN IF \E k \in 1..3 : IsNaN(w[k]) THEN NaN ELSE w[1] - 2 * w[2] + w[3]

apply_savgol(d) ==
    [i \in Idx(d) |-> [d[i] EXCEPT !.deriv1 = Savgol1(d, i),
                                   !.deriv2 = Savgol2(d, i)]]

----------------------------------------------------------------------------
(* Thresholds table (settings.Variables) *)

ancillary_ta_lower == 0
ancillary_ts_lower == 0
\* ancillary_p_min = 0.2 mm, in hundredths of a millimetre
ancillary_p_min == 20

BoundaryVariables == {"soil_moisture", "soil_temperature", "air_temperature",
                      "precipitation", "surface_temperature", "soil_suction",
                      "snow_water_equivalent", "snow_depth"}

low_boundary(var) ==
    CASE var \in {"soil_temperature", "air_temperature", "surface_temperature"}
           -> 0 - 60
      [] OTHER -> 0

hi_boundary(var) ==
    CASE var \in {"soil_moisture", "soil_temperature", "air_temperature",
                  "surface_temperature"} -> 60
      [] var = "precipitation" -> 100
      [] var = "soil_suction" -> 2500
      [] OTHER -> 10000

----------------------------------------------------------------------------
(* Writing flags *)

\* self.data['qflag'][index].apply(lambda x: x.add(tag)): the tag is added
\* to the set of every indexed row.
AddTag(d, index, tag) ==
    [i \in Idx(d) |->
        IF i \in index THEN [d[i] EXCEPT !.qflag = @ \cup {tag}] ELSE d[i]]

\* x.add(tag) on a cell that holds NaN instead of a set raises.
AddFails(d, index) == \E i \in index : d[i].qflag = QNaN

----------------------------------------------------------------------------
(* Interface.__init__ and Interface.run *)

MaxRuns == 2

\* The constructor's sat_point: absent for every input, 25 for some.
Setups ==
    {<<i, None>> : i \in Inputs}
    \cup {<<SoilInput(sh, <<10, 30, 10>>, 0, "none"), 25>> : sh \in Shapes}

\* The inputs of the engines that are run more than once.
ShortInputs ==
    {SoilInput(sh, lv, gap, "none") :
        sh \in {<<1, 13, 0>>, <<2, 4, 3>>}, lv \in Levels, gap \in Gaps}

Init ==
    /\ pc = "new"
    /\ \E su \in Setups : inp = su[1] /\ sat_point = su[2]
    /\ data = <<>>
    /\ cols = <<>>
    /\ variable = "None"
    /\ depth_from = None
    /\ keys = <<>>
    /\ todo = <<>>
    /\ numbers = FALSE
    /\ call = NoCall
    /\ applied = <<>>
    /\ ret = NoFrame
    /\ ret1 = NoFrame
    /\ err = "none"
    /\ runs = 0

\* __init__: FormatError for anything but a DataFrame; otherwise the variable
\* is soil_moisture when that column exists and the first column when not,
\* and every row gets an empty qflag set.
Construct ==
    /\ pc = "new"
    /\ IF ~inp.frame
       THEN /\ pc' = "failed"
            /\ err' = "FormatError"
            /\ UNCHANGED <<data, cols, variable>>
       ELSE /\ pc' = "idle"
            /\ variable' = IF HasCol(inp.cols, "soil_moisture")
                           THEN "soil_moisture" ELSE inp.cols[1]
            /\ data' = [i \in Idx(inp.rows) |-> [inp.rows[i] EXCEPT !.qflag = {}]]
            /\ cols' = Append(inp.cols, "qflag")
            /\ UNCHANGED err
    /\ UNCHANGED <<inp, sat_point, depth_from, keys, todo, numbers, call,
                   applied, ret, ret1, runs>>

\* The keys run will dispatch, in the order it dispatches them.
Plan(name, flag_numbers) ==
    CASE name.type = "none" -> FlagsDictKeys(flag_numbers)
      [] name.type \in {"list", "str"} -> name.v
      [] OTHER -> <<>>

\* run, up to the dispatch loop.
RunStart(c, limit) ==
    /\ pc = "idle"
    /\ runs < limit
    /\ pc' = "running"
    /\ runs' = runs + 1
    /\ call' = c
    /\ keys' = cols
    /\ sat_point' = IF ~Truthy(sat_point) THEN c.sat_point ELSE sat_point
    /\ depth_from' = IF ~Truthy(depth_from) THEN c.depth_from ELSE depth_from
    /\ IF variable = "soil_moisture"
       THEN /\ data' = apply_savgol(data)
            /\ cols' = AddCols(cols, <<"deriv1", "deriv2">>)
       ELSE UNCHANGED <<data, cols>>
    /\ numbers' = c.flag_numbers
    /\ todo' = Plan(c.name, c.flag_numbers)
    /\ applied' = <<>>
    /\ err' = "none"
    /\ UNCHANGED <<inp, variable, ret, ret1>>

\* One call on a fresh engine.
Run == \E c \in Calls : RunStart(c, 1)

\* The full pipeline, again and again on one engine, with the same arguments.
RunAgain ==
    \E c \in FullCalls : /\ runs = 0 \/ c.flag_numbers = numbers
                         /\ RunStart(c, MaxRuns)

\* flags_dict[key] for a key the dictionary does not hold.
RunKeyError ==
    /\ pc = "running"
    /\ todo # <<>>
    /\ Head(todo) \notin Range(FlagsDictKeys(numbers))
    /\ pc' = "idle"
    /\ err' = "KeyError"
    /\ todo' = <<>>
    /\ UNCHANGED <<inp, data, cols, variable, sat_point, depth_from, keys,
                   numbers, call, applied, ret, ret1, runs>>

\* return self.data[keys]
RunReturn ==
    /\ pc = "running"
    /\ todo = <<>>
    /\ pc' = "idle"
    /\ ret' = [cols |-> keys, rows |-> data]
    /\ ret1' = IF runs = 1 THEN ret' ELSE ret1
    /\ UNCHANGED <<inp, data, cols, variable, sat_point, depth_from, keys,
                   todo, numbers, call, applied, err, runs>>

\* The loop is about to call the method m with the key as its tag.
Dispatch(m) ==
    /\ pc = "running"
    /\ todo # <<>>
    /\ Head(todo) \in Range(FlagsDictKeys(numbers))
    /\ Method(Head(todo)) = m

\* The method returns, leaving the frame d with columns cs.
Done(d, cs) ==
    /\ data' = d
    /\ cols' = cs
    /\ todo' = Tail(todo)
    /\ applied' = Append(applied, Method(Head(todo)))
    /\ UNCHANGED <<pc, inp, variable, sat_point, depth_from, keys, numbers,
                   call, ret, ret1, err, runs>>

\* The method raises e, leaving the frame d with columns cs; run ends.
Raise(e, d, cs) ==
    /\ data' = d
    /\ cols' = cs
    /\ pc' = "idle"
    /\ err' = e
    /\ todo' = <<>>
    /\ UNCHANGED <<inp, variable, sat_point, depth_from, keys, numbers, call,
                   applied, ret, ret1, runs>>

\* The outcome of a method: the frame and columns it leaves, and the
\* exception it raised ("none" when it returned).
Ok(d, cs) == [data |-> d, cols |-> cs, err |-> "none"]

Fail(e, d, cs) == [data |-> d, cols |-> cs, err |-> e]

\* The method adds tag to the rows of index of the frame d, and returns.
Flag(d, cs, index, tag) ==
    IF AddFails(d, index) THEN Fail("AttributeError", d, cs)
    ELSE Ok(AddTag(d, index, tag), cs)

\* The dispatch loop takes the outcome r of the method it called.
Step(r) ==
    IF r.err = "none" THEN Done(r.data, r.cols) ELSE Raise(r.err, r.data, r.cols)

----------------------------------------------------------------------------
(* Threshold detectors *)

C01Index(d, var) == {i \in Idx(d) : Lt(d[i][var], low_boundary(var))}

C01(d, cs, var, tag) ==
    IF var \notin BoundaryVariables THEN Fail("KeyError", d, cs)
    ELSE Flag(d, cs, C01Index(d, var), tag)

flag_C01 == Dispatch("C01") /\ Step(C01(data, cols, variable, Head(todo)))

\* An upper-boundary index that passes over the rows already flagged: the
\* variant of C02Index against which order-independence is tested.
C02IndexUnflagged(d, var) ==
    {i \in Idx(d) : Gt(d[i][var], hi_boundary(var)) /\ d[i].qflag = {}}

C02Index(d, var) == {i \in Idx(d) : Gt(d[i][var], hi_boundary(var))}

C02(d, cs, var, tag) ==
    IF var \notin BoundaryVariables THEN Fail("KeyError", d, cs)
    ELSE Flag(d, cs, C02Index(d, var), tag)

flag_C02 == Dispatch("C02") /\ Step(C02(data, cols, variable, Head(todo)))

C03Index(d, sp) == {i \in Idx(d) : Gt(d[i].soil_moisture, sp)}

C03(d, cs, sp, tag) ==
    IF ~Truthy(sp) THEN Ok(d, cs)
    ELSE IF ~HasCol(cs, "soil_moisture") THEN Fail("AttributeError", d, cs)
         ELSE Flag(d, cs, C03Index(d, sp), tag)

flag_C03 == Dispatch("C03") /\ Step(C03(data, cols, sat_point, Head(todo)))

BelowIndex(d, c, lower) == {i \in Idx(d) : Lt(d[i][c], lower)}

\* The three ancillary temperature detectors: skipped without the column c.
Below(d, cs, c, lower, tag) ==
    IF ~HasCol(cs, c) THEN Ok(d, cs)
    ELSE Flag(d, cs, BelowIndex(d, c, lower), tag)

D01(d, cs, tag) == Below(d, cs, "soil_temperature", ancillary_ts_lower, tag)

flag_D01 == Dispatch("D01") /\ Step(D01(data, cols, Head(todo)))

D02(d, cs, tag) == Below(d, cs, "air_temperature", ancillary_ta_lower, tag)

flag_D02 == Dispatch("D02") /\ Step(D02(data, cols, Head(todo)))

D03(d, cs, tag) ==
    Below(d, cs, "gldas_soil_temperature", ancillary_ts_lower, tag)

flag_D03 == Dispatch("D03") /\ Step(D03(data, cols, Head(todo)))

----------------------------------------------------------------------------
(* Good marker *)

\* A marker that takes every row, flagged or not: the variant of GIndex
\* against which the good-marker property is tested.
GIndexEveryRow(d) == Idx(d)

\* self.data['qflag'] == set(): a NaN cell is not equal to the empty set.
GIndex(d) == {i \in Idx(d) : d[i].qflag = {}}

G(d, cs, tag) == Flag(d, cs, GIndex(d), tag)

flag_G == Dispatch("G") /\ Step(G(data, cols, Head(todo)))

----------------------------------------------------------------------------
(* Rolling-window kernels *)

\* The observations (non-NaN cells) of column c at positions lo..hi, clipped
\* to the frame.
Vals(d, c, lo, hi) ==
    LET a == Max2(lo, 1)
        b == Min2(hi, Len(d))
    IN IF b < a THEN <<>>
       ELSE SelectSeq([k \in 1..(b - a + 1) |-> d[a + k - 1][c]],
                      LAMBDA v : ~IsNaN(v))

SumSq(s) == SumSeq([k \in DOMAIN s |-> s[k] * s[k]])

\* n * (n - 1) * (sample variance) of the observations s.
VarNum(s) == Len(s) * SumSq(s) - SumSeq(s) * SumSeq(s)

RECURSIVE MaxSeq(_)
MaxSeq(s) == IF Len(s) = 1 THEN s[1] ELSE Max2(Head(s), MaxSeq(Tail(s)))

RECURSIVE MinSeq(_)
MinSeq(s) == IF Len(s) = 1 THEN s[1] ELSE Min2(Head(s), MinSeq(Tail(s)))

\* round(p / q) to the nearest integer for p >= 0, q > 0, ties to even
\* (numpy's round).
RoundDiv(p, q) ==
    LET f == p \div q
        r == p % q
    IN IF 2 * r > q \/ (2 * r = q /\ f % 2 = 1) THEN f + 1 ELSE f

----------------------------------------------------------------------------
(* Event-context detectors D04 and D05 *)

\* Twice the minimum precipitation, in hundredths of a millimetre:
\* ancillary_p_min, or depth_from * 0.05 * 0.5 * 1000 mm for a depth other
\* than 0 (depth in centimetres: 25 hundredths per centimetre).
MinPrecipitationX2(depth) ==
    IF depth # None /\ depth # 0 THEN 50 * depth ELSE 2 * ancillary_p_min

\* round(s, 1) of an amount s in hundredths of a millimetre.
RoundTenth(s) ==
    IF s >= 0 THEN 10 * RoundDiv(s, 10) ELSE 0 - 10 * RoundDiv(0 - s, 10)

\* rolling(min_periods=1, window=24).sum() of the precipitation column.
\* flag_D04 rounds its total_precipitation to one decimal; flag_D05 keeps
\* gldas_total_precipitation as summed.
TotalPrecipitation(d, pcol, i) ==
    LET w == Vals(d, pcol, i - 23, i)
    IN IF Len(w) < 1 THEN NaN
       ELSE IF pcol = "precipitation" THEN RoundTenth(SumSeq(w))
       ELSE SumSeq(w)

\* rise24h > std_x2, with std_x2 = 2 * rolling(min_periods=1, window=25).std():
\* rise24h > 0 and rise24h^2 * n * (n - 1) > 4 * n * (n - 1) * var.
RiseAboveStdX2(d, i) ==
    LET w == Vals(d, "soil_moisture", i - 24, i)
        n == Len(w)
        rise24h == Sub(Cell(d, "soil_moisture", i), Cell(d, "soil_moisture", i - 24))
    IN /\ n >= 2
       /\ Gt(rise24h, 0)
       /\ rise24h * rise24h * n * (n - 1) > 4 * VarNum(w)

RiseIndex(d, pcol, depth) ==
    {i \in Idx(d) :
        /\ Gt(Sub(Cell(d, "soil_moisture", i), Cell(d, "soil_moisture", i - 1)), 0)
        /\ RiseAboveStdX2(d, i)
        /\ ~IsNaN(TotalPrecipitation(d, pcol, i))
        /\ 2 * TotalPrecipitation(d, pcol, i) < MinPrecipitationX2(depth)}

\* The depth that skips D04 and D05: depth_from >= 0.1 m.
DepthSkip == 10

D04(d, cs, depth, tag) ==
    IF ~HasCol(cs, "precipitation") THEN Ok(d, cs)
    ELSE IF depth # None /\ depth >= DepthSkip THEN Ok(d, cs)
    ELSE IF ~HasCol(cs, "soil_moisture")
         THEN Fail("KeyError", d, AddCols(cs, <<"total_precipitation">>))
         ELSE Flag(d,
                   AddCols(cs, <<"total_precipitation", "std_x2",
                                 "rise24h", "rise1h">>),
                   RiseIndex(d, "precipitation", depth), tag)

flag_D04 == Dispatch("D04") /\ Step(D04(data, cols, depth_from, Head(todo)))

D05(d, cs, depth, tag) ==
    IF ~HasCol(cs, "gldas_precipitation") THEN Ok(d, cs)
    ELSE IF depth # None /\ depth >= DepthSkip THEN Ok(d, cs)
    ELSE IF ~HasCol(cs, "soil_moisture")
         THEN Fail("KeyError", d, AddCols(cs, <<"gldas_total_precipitation">>))
         ELSE Flag(d,
                   AddCols(cs, <<"gldas_total_precipitation", "gl_std_x2",
                                 "gl_rise24h", "gl_rise1h">>),
                   RiseIndex(d, "gldas_precipitation", depth), tag)

flag_D05 == Dispatch("D05") /\ Step(D05(data, cols, depth_from, Head(todo)))

----------------------------------------------------------------------------
(* Spike detector D06 *)

\* round(a / b, 3) in thousandths, for b # 0.
Ratio3(a, b) ==
    IF (a < 0) = (b < 0) THEN RoundDiv(1000 * Abs(a), Abs(b))
    ELSE 0 - RoundDiv(1000 * Abs(a), Abs(b))

\* A shift in the opposite direction: the variant of Shift against which the
\* first ratio criterion is tested.
ShiftBack(s, n) ==
    [k \in DOMAIN s |-> IF k + n \in DOMAIN s THEN s[k + n] ELSE NaN]

\* Series.shift(n): the cell of row k is the cell of row k - n, NaN when
\* there is no such row.
Shift(s, n) ==
    [k \in DOMAIN s |-> IF k - n \in DOMAIN s THEN s[k - n] ELSE NaN]

\* The float inf, the quotient of a positive number by zero.
Inf == 999961

\* round(a / b, 3) for two cells, in thousandths: NaN when a cell is NaN and
\* for 0 / 0, Inf or -Inf for another division by zero.
Quotient3(a, b) ==
    IF IsNaN(a) \/ IsNaN(b) THEN NaN
    ELSE IF b # 0 THEN Ratio3(a, b)
    ELSE IF a = 0 THEN NaN ELSE IF a > 0 THEN Inf ELSE 0 - Inf

\* The eq4 column as flag_D06 builds it:
\* round(sm.shift(-1).div(sm, axis=0).shift(1), 3).
Eq4(d) ==
    LET sm == [k \in Idx(d) |-> d[k].soil_moisture]
        ahead == Shift(sm, 0 - 1)
    IN Shift([k \in Idx(d) |-> Quotient3(ahead[k], sm[k])], 1)

\* (eq4 > 1.15) | (eq4 < 0.85), eq4 = round(sm.shift(-1).div(sm).shift(1), 3):
\* the cell of row i is sm[i] / sm[i-1]; a division by zero is +-inf, or NaN
\* for 0 / 0.
Eq4Out(d, i) ==
    LET a == Cell(d, "soil_moisture", i)
        b == Cell(d, "soil_moisture", i - 1)
    IN /\ ~IsNaN(a)
       /\ ~IsNaN(b)
       /\ IF b = 0 THEN a # 0
          ELSE Ratio3(a, b) > 1150 \/ Ratio3(a, b) < 850

\* (eq5 > 0.8) & (eq5 < 1.2),
\* eq5 = round(abs(deriv2.div(deriv2.shift(-2)).shift(1)), 3):
\* the cell of row i is |deriv2[i-1] / deriv2[i+1]|.
Eq5In(d, i) ==
    LET a == Cell(d, "deriv2", i - 1)
        b == Cell(d, "deriv2", i + 1)
    IN /\ ~IsNaN(a)
       /\ ~IsNaN(b)
       /\ b # 0
       /\ Ratio3(Abs(a), Abs(b)) > 800
       /\ Ratio3(Abs(a), Abs(b)) < 1200

\* The half-width of the centred 25-hour window of eq6.
HalfDay == 12

\* eq6 < 1: the variance of the 24 neighbours (divisor 23) over their mean;
\* NaN unless all 25 cells of the centred window are observations.
Eq6Low(d, i) ==
    LET w == Vals(d, "soil_moisture", i - HalfDay, i - 1)
             \o Vals(d, "soil_moisture", i + 1, i + HalfDay)
        s == SumSeq(w)
    IN /\ Len(w) = 2 * HalfDay
       /\ ~IsNaN(Cell(d, "soil_moisture", i))
       /\ IF s > 0 THEN VarNum(w) < (2 * HalfDay - 1) * s ELSE s < 0

\* peak(sm_array) on the window a: 1, 2 or 0.
peak(a) ==
    IF (Lt(a[1], a[2]) /\ Gt(a[2], a[3])) \/ (Gt(a[1], a[2]) /\ Lt(a[2], a[3]))
    THEN 1
    ELSE IF Len(a) > 3
            /\ \/ Lt(a[1], a[2]) /\ ~IsNaN(a[3]) /\ a[2] = a[3] /\ Gt(a[3], a[4])
               \/ Gt(a[1], a[2]) /\ ~IsNaN(a[3]) /\ a[2] = a[3] /\ Lt(a[3], a[4])
         THEN 2
         ELSE 0

\* rolling(min_periods=3, window=4, center=True).apply(peak, raw=True): the
\* window of row j is rows j-2..j+1 clipped to the frame.
RollingPeak(d, j) ==
    LET a == Max2(j - 2, 1)
        b == Min2(j + 1, Len(d))
        w == [k \in 1..(b - a + 1) |-> d[a + k - 1].soil_moisture]
    IN IF j \notin Idx(d) \/ Len(Vals(d, "soil_moisture", a, b)) < 3 THEN NaN
       ELSE peak(w)

\* eq_new1 = (the rolling peak).shift(-1)
EqNew1(d, i) == IF i \in Idx(d) THEN RollingPeak(d, i + 1) ELSE NaN

\* spike_2h = eq_new1.shift(1) > 1
Spike2h(d, i) == Gt(EqNew1(d, i - 1), 1)

Spike(d, i) ==
    /\ i \in Idx(d)
    /\ Eq4Out(d, i) \/ Spike2h(d, i)
    /\ Eq5In(d, i)
    /\ Eq6Low(d, i)
    /\ Gt(EqNew1(d, i), 0)

D06Index(d) ==
    {i \in Idx(d) : Spike(d, i) \/ (Spike(d, i - 1) /\ Spike2h(d, i))}

D06(d, cs, tag) ==
    IF ~HasCol(cs, "soil_moisture") THEN Fail("KeyError", d, cs)
    ELSE Flag(d,
              AddCols(cs, <<"eq4", "eq5", "eq6", "eq_new1", "spike_2h",
                            "spike">>),
              D06Index(d), tag)

flag_D06 == Dispatch("D06") /\ Step(D06(data, cols, Head(todo)))

----------------------------------------------------------------------------
(* Break detector D07 / D08 *)

AbsoluteChange(d, i) ==
    Sub(Cell(d, "soil_moisture", i), Cell(d, "soil_moisture", i - 1))

\* abs(deriv1) > eq8, eq8 = abs(deriv1.rolling(min_periods=4, window=25,
\* center=True).mean() * 10)
AboveEq8(d, i) ==
    LET w == Vals(d, "deriv1", i - HalfDay, i + HalfDay)
    IN /\ Len(w) >= 4
       /\ ~IsNaN(d[i].deriv1)
       /\ Abs(d[i].deriv1) * Len(w) > 10 * Abs(SumSeq(w))

\* np.isclose(eq9, 1, atol=1e-2), eq9 = round(abs(deriv2.shift(1) / deriv2), 1)
Eq9One(d, i) ==
    LET a == Cell(d, "deriv2", i - 1)
        b == Cell(d, "deriv2", i)
    IN ~IsNaN(a) /\ ~IsNaN(b) /\ b # 0 /\ RoundDiv(10 * Abs(a), Abs(b)) = 10

\* eq9a > 10, eq9a = abs(deriv2 / deriv2.shift(-2)): a division by zero is inf
Eq9aHigh(d, i) ==
    LET a == Cell(d, "deriv2", i)
        b == Cell(d, "deriv2", i + 2)
    IN /\ ~IsNaN(a)
       /\ ~IsNaN(b)
       /\ IF b = 0 THEN a # 0 ELSE Abs(a) > 10 * Abs(b)

BreakIndex(d) ==
    {i \in Idx(d) :
        /\ ~IsNaN(AbsoluteChange(d, i))
        /\ d[i].soil_moisture # 0
        /\ 10 * Abs(AbsoluteChange(d, i)) > Abs(d[i].soil_moisture)
        /\ Abs(AbsoluteChange(d, i)) > 1
        /\ AboveEq8(d, i)
        /\ Eq9One(d, i)
        /\ d[i].deriv2 # 0
        /\ Eq9aHigh(d, i)}

\* A zero index that takes every zero record, dropped to or not: the variant
\* of ZeroDropIndex against which the constant zero series is tested.
ZeroDropIndexAnyZero(d) == {i \in Idx(d) : d[i].soil_moisture = 0}

\* eq_new2: drops to zero
ZeroDropIndex(d) ==
    {i \in Idx(d) : /\ ~IsNaN(AbsoluteChange(d, i))
                    /\ Abs(AbsoluteChange(d, i)) > 5
                    /\ d[i].soil_moisture = 0}

DropIndex(d) ==
    {i \in BreakIndex(d) : Lt(d[i].deriv1, 0)} \cup ZeroDropIndex(d)

\* A jump index that ignores the sign of deriv1: the variant of JumpIndex
\* against which the exclusion of drop and jump is tested.
JumpIndexAnySign(d) == BreakIndex(d)

JumpIndex(d) == {i \in BreakIndex(d) : Gt(d[i].deriv1, 0)}

\* The tag of jumps: the next integer, or D08 for D07.
JumpTag(tag) ==
    IF IsInt(tag) THEN NumberCodes[CodeNum(tag) + 1]
    ELSE IF tag = "D07" THEN "D08" ELSE tag

D07Cols(cs) ==
    AddCols(cs, <<"absolute_change", "eq7", "eq8", "eq9", "eq9a", "eq_new2">>)

D07(d, cs, tag) ==
    IF ~HasCol(cs, "soil_moisture") THEN Fail("KeyError", d, cs)
    ELSE IF AddFails(d, DropIndex(d))
         THEN Fail("AttributeError", d, D07Cols(cs))
         ELSE Flag(AddTag(d, DropIndex(d), tag), D07Cols(cs),
                   JumpIndex(d), JumpTag(tag))

flag_D07 == Dispatch("D07") /\ Step(D07(data, cols, Head(todo)))

----------------------------------------------------------------------------
(* Low-plateau detector D09 *)

\* dropna(subset=['soil_moisture'])
DropNa(d) == SelectRows(d, {i \in Idx(d) : ~IsNaN(d[i].soil_moisture)})

\* resample('H').asfreq(): one row per hour from the first to the last row
\* left; an hour without a row gets a row of NaN cells.
Resample(d) ==
    IF d = <<>> THEN d
    ELSE [k \in 1..(d[Len(d)].ts - d[1].ts + 1) |->
            LET ts == d[1].ts + k - 1
            IN IF \E i \in Idx(d) : d[i].ts = ts
               THEN d[CHOOSE i \in Idx(d) : d[i].ts = ts]
               ELSE NaNRow(ts)]

\* The length of the forward window of rel_var and of the minimum plateau.
PlateauLen == 13

\* round(p / q, 4) in units of 1e-4, for q > 0.
Round4(p, q) ==
    LET v == (Abs(p) \div q) * 10000 + RoundDiv((Abs(p) % q) * 10000, q)
    IN IF p < 0 THEN 0 - v ELSE v

\* A fraction num / den with den > 0 as floor + rem / den.
Mixed(num, den) == [q |-> num \div den, r |-> num % den, den |-> den]

\* -1, 0 or 1 as a / b is below, equal to or above c / d (0 <= a < b,
\* 0 <= c < d), by the continued-fraction expansion.
RECURSIVE CmpFrac(_, _, _, _)
CmpFrac(a, b, c, d) ==
    IF a = 0 \/ c = 0 THEN (IF a > 0 THEN 1 ELSE IF c > 0 THEN 0 - 1 ELSE 0)
    ELSE IF b \div a # d \div c THEN (IF b \div a < d \div c THEN 1 ELSE 0 - 1)
    ELSE 0 - CmpFrac(b % a, a, d % c, c)

\* rel_var of row i of the frame d (already without gaps):
\* round(var, 4) / round(mean, 4) over rows i..i+12, NaN when the window is
\* short; a NaN on a row with soil moisture 0 is reset to 0.
RelVar(d, i) ==
    LET w == Vals(d, "soil_moisture", i, i + PlateauLen - 1)
        n == PlateauLen
        v == Round4(VarNum(w), n * (n - 1))
        m == Round4(SumSeq(w), n)
        zero == [k |-> "fin", m |-> Mixed(0, 1)]
        nan == IF d[i].soil_moisture = 0 THEN zero ELSE [k |-> "nan", m |-> Mixed(0, 1)]
    IN IF i \notin Idx(d) THEN [k |-> "nan", m |-> Mixed(0, 1)]
       ELSE IF Len(w) < n THEN nan
       ELSE IF m = 0 THEN (IF v = 0 THEN nan ELSE [k |-> "inf", m |-> Mixed(0, 1)])
       ELSE IF m < 0 THEN [k |-> "fin", m |-> Mixed(0 - v, 0 - m)]
       ELSE [k |-> "fin", m |-> Mixed(v, m)]

\* rel_var < 0.001
RelVarLow(rv) ==
    /\ rv.k = "fin"
    /\ rv.m.q < 0 \/ (rv.m.q = 0 /\ 1000 * rv.m.r < rv.m.den)

\* a - b >= 0.001 for two cells of rel_var
RelVarRise(a, b) ==
    LET c == [q |-> b.m.q + (IF 1000 * b.m.r + b.m.den >= 1000 * b.m.den THEN 1 ELSE 0),
              r |-> IF 1000 * b.m.r + b.m.den >= 1000 * b.m.den
                    THEN 1000 * b.m.r + b.m.den - 1000 * b.m.den
                    ELSE 1000 * b.m.r + b.m.den,
              den |-> 1000 * b.m.den]
    IN /\ b.k = "fin"
       /\ a.k \in {"fin", "inf"}
       /\ \/ a.k = "inf"
          \/ a.m.q > c.q
          \/ a.m.q = c.q /\ CmpFrac(a.m.r, a.m.den, c.r, c.den) >= 0

\* A scan that finds a drop on every row: the variant of HasDropCode against
\* which the dependence of D09 on a drop is tested.
HasDropCodeAnyRow(q, tag) == TRUE

\* str(qflag).contains(str(flag_D07)): the text of the set holds 'D07', or 10
\* when the tag is an integer ('D10' holds the digits 10 as well).
HasDropCode(q, tag) ==
    IF IsInt(tag) THEN "10" \in q \/ "D10" \in q ELSE "D07" \in q

\* An event that lets the end of a plateau override its start: the variant
\* of EventOf against which the accumulator is tested.
EventOfEndFirst(hit, rise) == IF rise THEN 0 - 1 ELSE IF hit THEN 1 ELSE 0

\* The event of a record: 1 on a hit (a drop with low relative variance), -1
\* on a rise of the relative variance where the event is 0, else 0.
EventOf(hit, rise) == IF hit THEN 1 ELSE IF rise THEN 0 - 1 ELSE 0

\* The event column: 1 on a drop with low relative variance, -1 where the
\* relative variance rises by at least 0.001 and there is no event, else 0.
Event(d, rel_var, tag, i) ==
    EventOf(HasDropCode(d[i].qflag, tag) /\ RelVarLow(rel_var[i]),
            i > 1 /\ RelVarRise(rel_var[i], rel_var[i - 1]))

\* plateau_mask: the running sum of the events, clamped to 0..1.
plateau_mask(events) ==
    LET RECURSIVE Go(_, _)
        Go(k, last) ==
            IF k > Len(events) THEN <<>>
            ELSE LET x == Max2(Min2(last + events[k], 1), 0)
                 IN <<x>> \o Go(k + 1, x)
    IN Go(1, 0)

\* end = plateau.rolling(min_periods=13, window=13).max(); the rows with end > 0
D09Index(d, tag) ==
    LET RECURSIVE RelVars(_)
        RelVars(k) == IF k > Len(d) THEN <<>>
                      ELSE <<RelVar(d, k)>> \o RelVars(k + 1)
        rel_var == RelVars(1)
        RECURSIVE Events(_)
        Events(k) == IF k > Len(d) THEN <<>>
                     ELSE <<Event(d, rel_var, tag, k)>> \o Events(k + 1)
        plateau == plateau_mask(Events(1))
    IN {i \in Idx(d) : /\ i >= PlateauLen
                       /\ \E k \in (i - PlateauLen + 1)..i : plateau[k] > 0}

D09Cols(cs) == AddCols(cs, <<"rel_var", "event", "plateau", "end">>)

D09(frame, cs, tag) ==
    IF ~HasCol(cs, "soil_moisture") THEN Fail("KeyError", frame, cs)
    ELSE LET d == DropNa(frame)
             index == D09Index(d, tag)
             flagged == AddTag(d, index, tag)
         IN IF AddFails(d, index) THEN Fail("AttributeError", d, D09Cols(cs))
            ELSE Ok(Resample(flagged), D09Cols(cs))

flag_D09 == Dispatch("D09") /\ Step(D09(data, cols, Head(todo)))

----------------------------------------------------------------------------
(* Saturated-plateau detector D10 *)

\* The upper limit of the values that count for highest_sm_value.
HighestLimit == 60

\* self.data['soil_moisture'][self.data['soil_moisture'] < 60].max()
HighestSm(d) ==
    LET w == SelectSeq(Vals(d, "soil_moisture", 1, Len(d)),
                       LAMBDA v : v < HighestLimit)
    IN IF w = <<>> THEN NaN ELSE MaxSeq(w)

\* The length of the forward window of VAR.
VarLen == 12

\* VAR: rolling(min_periods=12, window=12).var().shift(-11) <= 0.05
LowVar(d, i) ==
    LET w == Vals(d, "soil_moisture", i, i + VarLen - 1)
    IN Len(w) = VarLen /\ 20 * VarNum(w) <= VarLen * (VarLen - 1)

\* A numbering that moves to the next group after every sample of a run: the
\* variant of renumber_plateaus against which the run numbering is tested.
renumber_plateausEverySample(array) ==
    LET RECURSIVE Go(_, _)
        Go(k, group) ==
            IF k = Len(array) THEN <<group * array[k]>>
            ELSE <<IF array[k] > 0 THEN group ELSE 0>>
                 \o Go(k + 1, IF array[k] = 1 THEN group + 1 ELSE group)
    IN Go(1, 1)

\* renumber_plateaus(array): the sequence of group numbers of a 0/1 mask
renumber_plateaus(array) ==
    LET RECURSIVE Go(_, _)
        Go(k, group) ==
            IF k = Len(array) THEN <<group * array[k]>>
            ELSE <<IF array[k] > 0 THEN group ELSE 0>>
                 \o Go(k + 1, IF array[k] = 1 /\ array[k + 1] = 0
                              THEN group + 1 ELSE group)
    IN Go(1, 1)

VarGrouped(d) ==
    renumber_plateaus([i \in Idx(d) |-> IF LowVar(d, i) THEN 1 ELSE 0])

\* maximum: deriv1.rolling(window=25, min_periods=1).max().shift(-12)
Maximum(d, i) ==
    LET w == Vals(d, "deriv1", i + HalfDay - 2 * HalfDay, i + HalfDay)
    IN IF i + HalfDay > Len(d) \/ w = <<>> THEN NaN ELSE MaxSeq(w)

\* minimum: deriv1.rolling(window=25, min_periods=1).min().shift(-24)
Minimum(d, i) ==
    LET w == Vals(d, "deriv1", i, i + 2 * HalfDay)
    IN IF i + 2 * HalfDay > Len(d) \/ w = <<>> THEN NaN ELSE MinSeq(w)

\* groupby('VAR_grouped')['maximum'].first(): the first observation of the
\* group, NaN when it has none.
GroupRise(d, vg, g) ==
    LET rows == {i \in Idx(d) : vg[i] = g /\ ~IsNaN(Maximum(d, i))}
    IN IF rows = {} THEN NaN
       ELSE Maximum(d, CHOOSE i \in rows : \A j \in rows : i <= j)

\* groupby('VAR_grouped')['minimum'].last()
GroupDrop(d, vg, g) ==
    LET rows == {i \in Idx(d) : vg[i] = g /\ ~IsNaN(Minimum(d, i))}
    IN IF rows = {} THEN NaN
       ELSE Minimum(d, CHOOSE i \in rows : \A j \in rows : i >= j)

\* rise[rise >= 0.25]: the groups kept (deriv1 is in halves)
RiseGroups(d, vg) == {g \in Range(vg) : Gt(GroupRise(d, vg, g), 0)}

\* drop[drop < 0]
DropGroups(d, vg) == {g \in Range(vg) : Lt(GroupDrop(d, vg, g), 0)}

\* pd.concat([rise, drop], axis=1)[1:] and dropna: the first row of the
\* joined table (the lowest group number in either) is cut off, then the
\* groups with both a rise and a drop stay.
PossiblePlateaus(d, vg) ==
    LET both == RiseGroups(d, vg) \cup DropGroups(d, vg)
        rest == {g \in both : \E h \in both : h < g}
    IN rest \cap RiseGroups(d, vg) \cap DropGroups(d, vg)

\* VAR_period: VAR_rise_drop.rolling(window=12, min_periods=1).max() == idx
VarPeriod(d, vg, g) ==
    {i \in Idx(d) : \E k \in (i - VarLen + 1)..i : k \in Idx(d) /\ vg[k] = g}

FirstOf(rows) == CHOOSE i \in rows : \A j \in rows : i <= j

LastOf(rows) == CHOOSE i \in rows : \A j \in rows : i >= j

\* The rows Plateau of group g spans: from the first row of the period whose
\* deriv1 equals the rise (else the first row of the period) to the first row
\* whose deriv1 equals the drop (else the last row of the period).
PlateauRows(d, vg, g) ==
    LET period == VarPeriod(d, vg, g)
        maxhit == {i \in period : d[i].deriv1 = GroupRise(d, vg, g)}
        minhit == {i \in period : d[i].deriv1 = GroupDrop(d, vg, g)}
        start == IF maxhit # {} THEN FirstOf(maxhit) ELSE FirstOf(period)
        stop == IF minhit # {} THEN FirstOf(minhit) ELSE LastOf(period)
    IN start..stop

\* Plateau.mean() > highest_sm_value * 0.95
Saturated(d, rows, highest) ==
    LET w == [k \in 1..Cardinality(rows) |-> d[FirstOf(rows) + k - 1].soil_moisture]
    IN /\ rows # {}
       /\ ~IsNaN(highest)
       /\ 20 * SumSeq(w) > 19 * highest * Len(w)

D10Index(d, highest) ==
    LET vg == VarGrouped(d)
    IN UNION {IF Saturated(d, PlateauRows(d, vg, g), highest)
              THEN PlateauRows(d, vg, g) ELSE {} :
              g \in PossiblePlateaus(d, vg)}

D10Cols(d, cs) ==
    AddCols(cs, <<"VAR", "VAR_grouped", "maximum", "minimum">>
                \o IF PossiblePlateaus(d, VarGrouped(d)) = {} THEN <<>>
                   ELSE <<"VAR_rise_drop">>)

D10(frame, cs, tag) ==
    IF ~HasCol(cs, "soil_moisture") THEN Fail("KeyError", frame, cs)
    ELSE LET d == DropNa(frame)
         IN IF d = <<>> THEN Fail("IndexError", d, AddCols(cs, <<"VAR">>))
            ELSE Flag(d, D10Cols(d, cs), D10Index(d, HighestSm(frame)), tag)

flag_D10 == Dispatch("D10") /\ Step(D10(data, cols, Head(todo)))

----------------------------------------------------------------------------
(* run as a function of the engine and the call *)

\* flags_dict[key](key) on the frame d with columns cs.
Effect(key, d, cs, var, sp, depth) ==
    LET m == Method(key)
    IN CASE m = "C01" -> C01(d, cs, var, key)
         [] m = "C02" -> C02(d, cs, var, key)
         [] m = "C03" -> C03(d, cs, sp, key)
         [] m = "D01" -> D01(d, cs, key)
         [] m = "D02" -> D02(d, cs, key)
         [] m = "D03" -> D03(d, cs, key)
         [] m = "D04" -> D04(d, cs, depth, key)
         [] m = "D05" -> D05(d, cs, depth, key)
         [] m = "D06" -> D06(d, cs, key)
         [] m = "D07" -> D07(d, cs, key)
         [] m = "D09" -> D09(d, cs, key)
         [] m = "D10" -> D10(d, cs, key)
         [] OTHER -> G(d, cs, key)

\* The dispatch loop over the keys ks, from the outcome r so far.
RECURSIVE Loop(_, _, _, _, _, _)
Loop(ks, r, fn, var, sp, depth) ==
    IF ks = <<>> \/ r.err # "none" THEN r
    ELSE IF Head(ks) \notin Range(FlagsDictKeys(fn))
         THEN Fail("KeyError", r.data, r.cols)
         ELSE Loop(Tail(ks), Effect(Head(ks), r.data, r.cols, var, sp, depth),
                   fn, var, sp, depth)

\* The outcome of the call c of run on an engine with frame d, columns cs,
\* variable var and attributes sp (sat_point) and depth (depth_from).
RunOutcome(d, cs, var, sp, depth, c) ==
    LET sp1 == IF ~Truthy(sp) THEN c.sat_point ELSE sp
        depth1 == IF ~Truthy(depth) THEN c.depth_from ELSE depth
        d1 == IF var = "soil_moisture" THEN apply_savgol(d) ELSE d
        cs1 == IF var = "soil_moisture"
               THEN AddCols(cs, <<"deriv1", "deriv2">>) ELSE cs
    IN Loop(Plan(c.name, c.flag_numbers), Ok(d1, cs1), c.flag_numbers, var,
            sp1, depth1)

----------------------------------------------------------------------------
(* Specification *)

Next ==
    \/ Construct
    \/ Run
    \/ RunKeyError
    \/ RunReturn
    \/ flag_C01
    \/ flag_C02
    \/ flag_C03
    \/ flag_D01
    \/ flag_D02
    \/ flag_D03
    \/ flag_D04
    \/ flag_D05
    \/ flag_D06
    \/ flag_D07
    \/ flag_D09
    \/ flag_D10
    \/ flag_G

Spec == Init /\ [][Next]_vars

Detectors ==
    \/ flag_C01
    \/ flag_C02
    \/ flag_C03
    \/ flag_D01
    \/ flag_D02
    \/ flag_D03
    \/ flag_D04
    \/ flag_D05
    \/ flag_D06
    \/ flag_D07
    \/ flag_D09
    \/ flag_D10
    \/ flag_G

InitAgain == Init /\ inp \in ShortInputs

NextAgain ==
    \/ Construct
    \/ RunAgain
    \/ RunReturn
    \/ Detectors

SpecAgain == InitAgain /\ [][NextAgain]_vars

\* Constant series x[i] = c without ancillary channels and without gaps.
ConstLevels == {0, 1, 20, 60}

ConstInputs ==
    {SoilInput(sh, <<c, c, c>>, 0, "none") : sh \in Shapes, c \in ConstLevels}

\* The engine before construction, on one of the inputs S.
InitOn(S) ==
    /\ pc = "new"
    /\ inp \in S
    /\ sat_point = None
    /\ data = <<>>
    /\ cols = <<>>
    /\ variable = "None"
    /\ depth_from = None
    /\ keys = <<>>
    /\ todo = <<>>
    /\ numbers = FALSE
    /\ call = NoCall
    /\ applied = <<>>
    /\ ret = NoFrame
    /\ ret1 = NoFrame
    /\ err = "none"
    /\ runs = 0

SpecConst == InitOn(ConstInputs) /\ [][Next]_vars

\* Twenty-six hours with a rise on hour 25 (23 hours at 10, one at 1, then
\* 14 or 15: a 24-hour rise of exactly, or of more than, twice the deviation
\* of the 25-hour window) and one shower on hour 25 that both precipitation
\* channels record alike, in hundredths of a millimetre.
RiseInputs ==
    {[frame |-> TRUE,
      cols |-> <<"soil_moisture", "precipitation", "gldas_precipitation">>,
      rows |-> [i \in 1..26 |->
                  LET rain == IF i = 25 THEN shower ELSE 0
                  IN Row(i, Level(<<23, 1, 2>>, lv, i), NaN, NaN, NaN,
                         rain, rain)]] :
        lv \in {<<10, 1, 14>>, <<10, 1, 15>>}, shower \in {0, 16, 20, 30}}

SpecRise == InitOn(RiseInputs) /\ [][Next]_vars

\* Forty hours with a saturated plateau of 25 records at 50 between a rise on
\* hour 15 and a drop on hour 40, after 14 hours that decline by one a record
\* (no low-variance period before the plateau) or stay at 30.
PlateauInputs ==
    {[frame |-> TRUE,
      cols |-> <<"soil_moisture">>,
      rows |-> [i \in 1..40 |->
                  Row(i, IF i <= 14 THEN 30 + slope * (15 - i)
                         ELSE IF i <= 39 THEN 50 ELSE 30,
                      NaN, NaN, NaN, NaN, NaN)]] :
        slope \in {0, 1}}

SpecPlateau == InitOn(PlateauInputs) /\ [][Next]_vars

\* The two list kernels on their own: renumber_plateaus on every 0/1 mask
\* of up to MaxMask samples, and plateau_mask on the events of up to
\* MaxEvents records, each a hit (drop with low relative variance) or not and
\* a rise of the relative variance or not.
MaxMask == 8

MaxEvents == 5

MaskInputs ==
    {[array |-> m] :
        m \in UNION {[1..n -> {0, 1}] : n \in 1..MaxMask}}

EventInputs ==
    {[events |-> e] :
        e \in UNION {[1..n -> [hit : BOOLEAN, rise : BOOLEAN]] :
                         n \in 1..MaxEvents}}

Renumber ==
    /\ pc = "new"
    /\ "array" \in DOMAIN inp
    /\ pc' = "renumbered"
    /\ ret' = renumber_plateaus(inp.array)
    /\ UNCHANGED <<inp, data, cols, variable, sat_point, depth_from, keys,
                   todo, numbers, call, applied, ret1, err, runs>>

MaskPlateau ==
    /\ pc = "new"
    /\ "events" \in DOMAIN inp
    /\ pc' = "masked"
    /\ ret' = plateau_mask([k \in DOMAIN inp.events |->
                               EventOf(inp.events[k].hit,
                                       inp.events[k].rise)])
    /\ UNCHANGED <<inp, data, cols, variable, sat_point, depth_from, keys,
                   todo, numbers, call, applied, ret1, err, runs>>

SpecKernels ==
    InitOn(MaskInputs \cup EventInputs) /\ [][Renumber \/ MaskPlateau]_vars

----------------------------------------------------------------------------
(* Properties *)

\* The last call of run has returned.
Returned == pc = "idle" /\ runs >= 1 /\ err = "none"

\* The codes of a qflag cell: none for a cell that holds NaN.
Codes(q) == IF q = QNaN THEN {} ELSE q

GoodCode(flag_numbers) == IF flag_numbers THEN "14" ELSE "G"

\* C1: after one run of the full pipeline (no name) on a fresh engine, every
\* row of the returned frame carries G if and only if it carries no other code.
C1_GoodIffNoOtherCode ==
    (Returned /\ runs = 1 /\ call.name = NoName)
        => \A i \in Idx(ret.rows) :
              LET q == ret.rows[i].qflag
                  g == GoodCode(call.flag_numbers)
              IN (g \in q) <=> (q \ {g} = {})

\* C1 witness: a full run returned a frame with a row that is only good and a
\* row that carries other codes and is not good.
C1_Witness ==
    /\ Returned /\ runs = 1 /\ call.name = NoName
    /\ \E i, j \in Idx(ret.rows) :
          /\ ret.rows[i].qflag = {GoodCode(call.flag_numbers)}
          /\ ret.rows[j].qflag # {}
          /\ GoodCode(call.flag_numbers) \notin ret.rows[j].qflag

\* C2: in every state of a run (full pipeline or a selection, alphabetic or
\* numeric), no row carries both the drop code (D07, 10) and the jump code
\* (D08, 11), and the drop index and the jump index that flag_D07 is about to
\* write are disjoint.
C2_DropJumpExclusive ==
    /\ \A i \in Idx(data) :
          /\ ~({"D07", "D08"} \subseteq data[i].qflag)
          /\ ~({"10", "11"} \subseteq data[i].qflag)
    /\ \A i \in Idx(ret.rows) :
          /\ ~({"D07", "D08"} \subseteq ret.rows[i].qflag)
          /\ ~({"10", "11"} \subseteq ret.rows[i].qflag)
    /\ (pc = "running" /\ todo # <<>> /\ HasCol(cols, "soil_moisture"))
          => DropIndex(data) \cap JumpIndex(data) = {}

\* C2 witness: a returned frame with a drop on one row (a drop to zero or a
\* negative break) and a jump on another.
C2_Witness ==
    /\ Returned
    /\ \E i, j \in Idx(ret.rows) :
          \/ "D07" \in ret.rows[i].qflag /\ "D08" \in ret.rows[j].qflag
          \/ "10" \in ret.rows[i].qflag /\ "11" \in ret.rows[j].qflag

\* C3: the frame run returns has as many rows as the hourly input frame, the
\* rows with a missing soil moisture included.
C3_SameLength ==
    Returned => Len(ret.rows) = Len(inp.rows)

\* C4: in the frame run returns, every qflag is a set of codes of the
\* alphabet of the selected mode; no row has a missing (NaN) qflag.
C4_QflagInAlphabet ==
    Returned => \A i \in Idx(ret.rows) :
                   /\ ret.rows[i].qflag # QNaN
                   /\ ret.rows[i].qflag \subseteq Alphabet(call.flag_numbers)

\* C5: the constructor raises FormatError when the input is not a DataFrame
\* and when it is a DataFrame without a soil_moisture column.
C5_FormatError ==
    (pc # "new" /\ (~inp.frame \/ ~HasCol(inp.cols, "soil_moisture")))
        => pc = "failed" /\ err = "FormatError"

\* C6: with a variable other than soil_moisture, a run of the full pipeline
\* raises nothing and writes no code other than C01, C02 and G.
C6_OnlyBoundaryChecks ==
    (pc \in {"idle", "running"} /\ variable # "soil_moisture" /\ runs = 1
     /\ call.name = NoName)
        => /\ err = "none"
           /\ \A i \in Idx(data) :
                 data[i].qflag \subseteq {"C01", "C02", "G", "1", "2", "14"}

\* C7: a list of names is applied in the canonical order C01 .. D10, G
\* whatever the order of the list, so that G is written after every other
\* selected detector: a returned row that carries G carries nothing else.
C7_CanonicalOrder ==
    (runs = 1 /\ call.name.type = "list")
        => /\ \A j, k \in DOMAIN applied :
                 j < k => CodeNum(applied[j]) <= CodeNum(applied[k])
           /\ Returned =>
                 \A i \in Idx(ret.rows) :
                    LET g == GoodCode(call.flag_numbers)
                    IN g \in ret.rows[i].qflag => ret.rows[i].qflag = {g}

\* C8: a name that is one code or a list of codes of the alphabet of the
\* selected mode runs exactly the named detectors: the call does not raise
\* and, when it ends, the detectors applied are those named.
C8_ExactlyNamed ==
    (pc = "idle" /\ runs = 1 /\ variable = "soil_moisture"
     /\ call.name.type \in {"str", "int", "list"}
     /\ \A k \in DOMAIN call.name.v :
           call.name.v[k] \in Alphabet(call.flag_numbers))
        => /\ err = "none"
           /\ applied = [k \in DOMAIN call.name.v |-> Method(call.name.v[k])]

\* The records of a frame: the hour and the codes of each row.
Records(f) == [i \in Idx(f.rows) |-> <<f.rows[i].ts, Codes(f.rows[i].qflag)>>]

\* C9: a second run of the full pipeline on the same engine returns the same
\* records with the same qflag sets as the first.
C9_Idempotent ==
    (Returned /\ runs = 2) => Records(ret) = Records(ret1)

\* C10: qflag only grows: a code that a row carries stays on that row through
\* every later step of the engine, up to the frame returned.
C10_Additive ==
    [][/\ \A i \in Idx(data) :
             \A t \in Codes(data[i].qflag) :
                \E j \in Idx(data') :
                   data'[j].ts = data[i].ts /\ t \in Codes(data'[j].qflag)
       /\ ret' # ret =>
             \A i \in Idx(data) :
                \A t \in Codes(data[i].qflag) :
                   \E j \in Idx(ret'.rows) :
                      /\ ret'.rows[j].ts = data[i].ts
                      /\ t \in Codes(ret'.rows[j].qflag)]_vars

DropCode(flag_numbers) == IF flag_numbers THEN "10" ELSE "D07"

PlateauCode(flag_numbers) == IF flag_numbers THEN "12" ELSE "D09"

\* C11: every row that carries D09 has, at its hour or earlier, a row that
\* carries D07; and every row flag_D09 is about to flag has, at its position
\* or earlier in the frame without the missing records, a row that carries
\* D07 and has a relative variance below 0.001 (the event is activated).
C11_PlateauAfterDrop ==
    /\ \A i \in Idx(data) :
          PlateauCode(numbers) \in Codes(data[i].qflag)
             => \E k \in Idx(data) :
                   /\ data[k].ts <= data[i].ts
                   /\ DropCode(numbers) \in Codes(data[k].qflag)
    /\ (pc = "running" /\ todo # <<>> /\ Head(todo) = PlateauCode(numbers)
        /\ HasCol(cols, "soil_moisture"))
          => LET d == DropNa(data)
             IN \A i \in D09Index(d, Head(todo)) :
                   \E k \in 1..i :
                      /\ DropCode(numbers) \in d[k].qflag
                      /\ RelVarLow(RelVar(d, k))

\* C11 witness: a returned frame in which a row carries D09.
C11_Witness ==
    /\ Returned
    /\ \E i \in Idx(ret.rows) : PlateauCode(numbers) \in Codes(ret.rows[i].qflag)

\* C12: for a constant series x[i] = c with 0 <= c <= 60 and no ancillary
\* columns, the full pipeline (with no saturation point below c) returns, and
\* every row of the returned frame has the qflag {G}.
C12_ConstantOnlyGood ==
    (pc = "idle" /\ runs = 1 /\ call.name = NoName
     /\ (~Truthy(sat_point) \/ inp.rows[1].soil_moisture <= sat_point))
        => /\ err = "none"
           /\ Len(ret.rows) = Len(inp.rows)
           /\ \A i \in Idx(ret.rows) :
                 ret.rows[i].qflag = {GoodCode(call.flag_numbers)}

\* C12 witness: the full pipeline returned a constant zero series of 25 or
\* more rows with {G} on its last row.
C12_Witness ==
    /\ Returned /\ call.name = NoName
    /\ Len(ret.rows) >= 25
    /\ \A i \in Idx(ret.rows) : ret.rows[i].soil_moisture = 0
    /\ ret.rows[Len(ret.rows)].qflag = {GoodCode(call.flag_numbers)}

\* C12 as stated, for every option of run: for a constant series x[i] = c
\* with 0 <= c <= 60 and no ancillary columns, the full pipeline returns and
\* every row of the returned frame has the qflag {G}.
C12_ConstantOnlyGoodAnyOption ==
    (pc = "idle" /\ runs = 1 /\ call.name = NoName)
        => /\ err = "none"
           /\ \A i \in Idx(ret.rows) :
                 ret.rows[i].qflag = {GoodCode(call.flag_numbers)}

\* The number of a code, and the image of a qflag cell under C01 -> 1, ...,
\* G -> 14.
Image(q) == IF q = QNaN THEN q ELSE {NumberCodes[CodeNum(t)] : t \in q}

\* The call of the numeric mode that names the same detectors as the
\* alphabetic call c: a single code is an int, a list is a list of ints.
NumberCall(c) ==
    Call([type |-> IF c.name.type = "str" THEN "int" ELSE c.name.type,
          v |-> [k \in DOMAIN c.name.v |-> NumberCodes[CodeNum(c.name.v[k])]]],
         c.sat_point, c.depth_from, TRUE)

\* The frames of two outcomes agree up to the mapping of the codes.
SameUpToImage(a, n) ==
    /\ n.err = a.err
    /\ Len(n.data) = Len(a.data)
    /\ \A i \in Idx(a.data) :
          /\ n.data[i].ts = a.data[i].ts
          /\ n.data[i].qflag = Image(a.data[i].qflag)

\* C13: on a freshly constructed engine, every call of run with flag_numbers
\* leaves on every row the image, under C01 -> 1, ..., G -> 14, of the qflag
\* that the same call without flag_numbers leaves.
C13_NumbersAreImage ==
    (pc = "idle" /\ runs = 0)
        => \A c \in Calls :
              ~c.flag_numbers
                 => SameUpToImage(
                       RunOutcome(data, cols, variable, sat_point, depth_from, c),
                       RunOutcome(data, cols, variable, sat_point, depth_from,
                                  NumberCall(c)))

\* C14: when flag_C03 is called with a saturation point S supplied (any
\* number, 0 included), it adds C03 to exactly the rows with soil moisture
\* above S, strictly; with no saturation point it adds nothing.
C14_SaturationStrict ==
    (pc = "running" /\ todo # <<>> /\ Head(todo) \in {"C03", "3"}
     /\ variable = "soil_moisture")
        => LET r == C03(data, cols, sat_point, Head(todo))
           IN /\ r.err = "none"
              /\ \A i \in Idx(data) :
                    Head(todo) \in r.data[i].qflag
                       <=> (sat_point # None
                            /\ Gt(data[i].soil_moisture, sat_point))

\* C15: the frame every call of run returns, the first and any later one on
\* the same engine, has the columns of the input frame plus qflag and no
\* derived column.
C15_ReturnedColumns ==
    Returned => ret.cols = Append(inp.cols, "qflag")

\* C16: the saturation point and the sensor depth are inputs of the call: on
\* a constructed engine, the outcome of every call of run is the outcome of
\* the same call on an engine constructed without a saturation point and
\* without a depth, and the values the call works with are those passed to it.
C16_PerCallOptions ==
    /\ (pc = "idle" /\ runs = 0)
          => \A c \in Calls :
                RunOutcome(data, cols, variable, sat_point, depth_from, c)
                   = RunOutcome(data, cols, variable, None, None, c)
    /\ (pc = "running" /\ call.sat_point # None)
          => sat_point = call.sat_point

\* C17: when the variable is not in the thresholds table, the engine raises
\* FormatError or restricts itself to the applicable detectors: no run ends
\* with another exception, and no row receives C01 or C02.
C17_UnknownVariable ==
    (pc # "new" /\ variable \notin BoundaryVariables)
        => /\ err \in {"none", "FormatError"}
           /\ \A i \in Idx(data) :
                 data[i].qflag \cap {"C01", "C02", "1", "2"} = {}

\* C18: a low plateau needs 13 samples: a row carries D09 only if, at its
\* position or earlier, a row carries D07 and the frame has at least 13 rows
\* from that row on.
C18_PlateauMinimum ==
    \A i \in Idx(data) :
       PlateauCode(numbers) \in Codes(data[i].qflag)
          => \E k \in 1..i :
                /\ DropCode(numbers) \in Codes(data[k].qflag)
                /\ k + PlateauLen - 1 <= Len(data)

\* The keys of the six threshold detectors C01, C02, C03, D01, D02, D03.
ThresholdKeys == SubSeq(FlagsDictKeys(numbers), 1, 6)

\* The outcome of the detector of key after the outcome r.
Then(r, key) ==
    IF r.err # "none" THEN r
    ELSE Effect(key, r.data, r.cols, variable, sat_point, depth_from)

\* Two outcomes agree: both raise or, when neither does, both leave the same
\* frame.
SameOutcome(x, y) ==
    /\ (x.err = "none") <=> (y.err = "none")
    /\ x.err = "none" => x.data = y.data

\* C19: on the frame of every constructed engine, before and after any call
\* of run, any two of the threshold detectors C01, C02, C03, D01, D02, D03
\* give the same qflags in either order, and each decides a row as it decides
\* the one-row frame of that row alone.
C19_ThresholdsCommute ==
    (pc = "idle" /\ data # <<>>)
        => LET r == Ok(data, cols)
               one == <<Then(r, ThresholdKeys[1]), Then(r, ThresholdKeys[2]),
                        Then(r, ThresholdKeys[3]), Then(r, ThresholdKeys[4]),
                        Then(r, ThresholdKeys[5]), Then(r, ThresholdKeys[6])>>
           IN /\ \A j, k \in 1..6 :
                    j < k => SameOutcome(Then(one[j], ThresholdKeys[k]),
                                         Then(one[k], ThresholdKeys[j]))
              /\ \A j \in 1..6 :
                    \A i \in Idx(data) :
                       LET alone == Then(Ok(<<data[i]>>, cols), ThresholdKeys[j])
                       IN /\ one[j].err = alone.err
                          /\ one[j].err = "none"
                                => one[j].data[i].qflag = alone.data[1].qflag

\* C19 witness: two threshold detectors have run and a row carries the codes
\* of both.
C19_Witness ==
    /\ pc = "running"
    /\ Len(applied) >= 2
    /\ \E i \in Idx(data) :
          \E j, k \in 1..6 :
             /\ j # k
             /\ {ThresholdKeys[j], ThresholdKeys[k]} \subseteq Codes(data[i].qflag)

\* The records the event-context rule names: rise1 > 0, rise24 > 2 * std of
\* the 25-hour window, and the sum of the precipitation channel over records
\* i-23..i below the minimum, all strict.
RisingWithoutRain(d, pcol, depth) ==
    {i \in Idx(d) :
        LET w == Vals(d, pcol, i - 23, i)
            v == Vals(d, "soil_moisture", i - 24, i)
            n == Len(v)
            rise1 == Sub(Cell(d, "soil_moisture", i), Cell(d, "soil_moisture", i - 1))
            rise24 == Sub(Cell(d, "soil_moisture", i), Cell(d, "soil_moisture", i - 24))
        IN /\ Gt(rise1, 0)
           /\ n >= 2
           /\ Gt(rise24, 0)
           /\ rise24 * rise24 * n * (n - 1) > 4 * VarNum(v)
           /\ Len(w) >= 1
           /\ 2 * SumSeq(w) < MinPrecipitationX2(depth)}

\* D04 or D05 is the next detector of the running call, on a soil moisture
\* frame with both precipitation channels and a depth that does not skip it.
AtRiseDetector ==
    /\ pc = "running"
    /\ todo # <<>>
    /\ Head(todo) \in Range(FlagsDictKeys(numbers))
    /\ Method(Head(todo)) \in {"D04", "D05"}
    /\ HasCol(cols, "soil_moisture")
    /\ HasCol(cols, "precipitation")
    /\ HasCol(cols, "gldas_precipitation")
    /\ (depth_from = None \/ depth_from < DepthSkip)

\* C20: D04 (on precipitation) and D05 (on gldas_precipitation) take exactly
\* the records with rise1 > 0, rise24 > std24 and total_p < min_p, where
\* total_p[i] is the sum of the channel over records i-23..i and every
\* comparison is strict; and on identical channels they take the same
\* records.
C20_SameRiseRule ==
    AtRiseDetector
        => LET d04 == RiseIndex(data, "precipitation", depth_from)
               d05 == RiseIndex(data, "gldas_precipitation", depth_from)
           IN /\ d04 = RisingWithoutRain(data, "precipitation", depth_from)
              /\ d05 = RisingWithoutRain(data, "gldas_precipitation", depth_from)
              /\ (\A i \in Idx(data) :
                     data[i].precipitation = data[i].gldas_precipitation)
                    => d04 = d05

\* C20 for D05 alone: it takes exactly the records the rule names, and none
\* at a 24-hour rise equal to twice the deviation.
C20_GldasRiseRule ==
    AtRiseDetector
        => RiseIndex(data, "gldas_precipitation", depth_from)
              = RisingWithoutRain(data, "gldas_precipitation", depth_from)

\* A record took D05 on a frame whose precipitation channels are identical.
C20_Witness ==
    /\ Returned
    /\ \A i \in Idx(data) : data[i].precipitation = data[i].gldas_precipitation
    /\ \E i \in Idx(data) : Codes(data[i].qflag) \cap {"D05", "8"} # {}

\* D07 is the next detector of the running call, on a frame with soil
\* moisture.
AtBreakDetector ==
    /\ pc = "running"
    /\ todo # <<>>
    /\ Head(todo) \in Range(FlagsDictKeys(numbers))
    /\ Method(Head(todo)) = "D07"
    /\ HasCol(cols, "soil_moisture")

\* C21: a record i with deriv2[i+2] = 0, where c3a = |deriv2[i] / deriv2[i+2]|
\* divides by zero, never satisfies the base condition of D07 / D08 and takes
\* neither code from it.
C21_ZeroDivisionNoBreak ==
    AtBreakDetector
        => \A i \in Idx(data) :
              Cell(data, "deriv2", i + 2) = 0
                 => /\ i \notin BreakIndex(data)
                    /\ LET after == D07(data, cols, Head(todo))
                       IN (after.err = "none" /\ i \notin ZeroDropIndex(data))
                             => Codes(after.data[i].qflag)
                                   = Codes(data[i].qflag)

\* D10 is the next detector of the running call, on a frame with soil
\* moisture observations.
AtSaturationDetector ==
    /\ pc = "running"
    /\ todo # <<>>
    /\ Head(todo) \in Range(FlagsDictKeys(numbers))
    /\ Method(Head(todo)) = "D10"
    /\ HasCol(cols, "soil_moisture")
    /\ DropNa(data) # <<>>

\* The low-variance groups g > 0 with a rise of at least 0.25 and a drop
\* below 0 whose rows have a mean above 0.95 * highest_sm.
SaturatedGroups(d, highest) ==
    LET vg == VarGrouped(d)
    IN {g \in Range(vg) \ {0} :
           /\ Gt(GroupRise(d, vg, g), 0)
           /\ Lt(GroupDrop(d, vg, g), 0)
           /\ Saturated(d, PlateauRows(d, vg, g), highest)}

\* C22: D10 evaluates every low-variance group g > 0 with rise >= 0.25 and
\* drop < 0, whatever the rise and drop of the other groups and of group 0:
\* when the mean over [start, end] exceeds 0.95 * highest_sm, every record of
\* [start, end] takes D10.
C22_EveryQualifyingGroup ==
    AtSaturationDetector
        => LET d == DropNa(data)
               highest == HighestSm(data)
               vg == VarGrouped(d)
               after == D10(data, cols, Head(todo))
           IN \A g \in SaturatedGroups(d, highest) :
                 /\ after.err = "none"
                 /\ \A i \in PlateauRows(d, vg, g) :
                       Head(todo) \in Codes(after.data[i].qflag)

\* A saturated group exists and D10 has marked its records.
C22_Witness ==
    /\ pc = "running"
    /\ applied # <<>>
    /\ applied[Len(applied)] = "D10"
    /\ SaturatedGroups(data, HighestSm(data)) # {}
    /\ \E i \in Idx(data) : Codes(data[i].qflag) \cap {"D10", "13"} # {}

\* The number of runs of 1 that start at or before sample i of a mask.
RunsUpTo(mask, i) ==
    Cardinality({k \in 1..i : mask[k] = 1 /\ (k = 1 \/ mask[k - 1] = 0)})

\* C23: for every non-empty 0/1 mask the run numbering has the length of the
\* mask, gives 0 to every sample with VAR = false and gives the samples of the
\* n-th contiguous run of VAR = true the number n, also when the mask starts
\* or ends inside a run.
C23_RunNumbering ==
    pc = "renumbered"
        => /\ Len(ret) = Len(inp.array)
           /\ \A i \in DOMAIN inp.array :
                 ret[i] = IF inp.array[i] = 0 THEN 0 ELSE RunsUpTo(inp.array, i)

\* The mask of the docstring, which starts and ends inside a run, numbered.
C23_Witness ==
    /\ pc = "renumbered"
    /\ inp.array = <<1, 0, 1, 1, 0, 0, 1, 1>>
    /\ ret = <<1, 0, 2, 2, 0, 0, 3, 3>>

\* C24: the accumulator keeps plateau in {0, 1}; plateau[i] = 1 exactly when
\* the most recent non-zero event at or before i is +1; an end event (-1) is
\* only on a record without a hit, so a record with a drop and low relative
\* variance always switches the plateau on.
C24_PlateauFollowsLastEvent ==
    pc = "masked"
        => LET rows == inp.events
               on(k) == rows[k].hit
               off(k) == rows[k].rise /\ ~rows[k].hit
           IN /\ Len(ret) = Len(rows)
              /\ \A i \in DOMAIN rows :
                    /\ ret[i] \in {0, 1}
                    /\ ret[i] = 1
                          <=> \E k \in 1..i :
                                 on(k) /\ \A j \in (k + 1)..i : ~off(j)
                    /\ on(i) => ret[i] = 1

\* A plateau that is switched on by a record that is a hit and a rise of the
\* relative variance at once, and switched off by a later rise.
C24_Witness ==
    /\ pc = "masked"
    /\ Len(inp.events) = 4
    /\ inp.events[2].hit /\ inp.events[2].rise
    /\ ~inp.events[4].hit /\ inp.events[4].rise
    /\ ret = <<0, 1, 1, 0>>

\* The order of the full pipeline (D08 is part of D07).
PipelineOrder ==
    <<"C01", "C02", "C03", "D01", "D02", "D03", "D04", "D05", "D06", "D07",
      "D09", "D10", "G">>

\* C25: a run without names applies every detector exactly once, in the order
\* C01, C02, C03, D01, D02, D03, D04, D05, D06, D07 (+D08), D09, D10, G; with
\* soil_moisture as the variable the derivative builder has run before any of
\* them, so deriv1 and deriv2 exist when D06, D07 and D10 run, D07 is done
\* before D09 and G comes after every other detector.
C25_PipelineOrder ==
    (runs >= 1 /\ call.name = NoName)
        => /\ \E n \in 0..Len(PipelineOrder) :
                 applied = SubSeq(PipelineOrder, 1, n)
           /\ (pc = "running" /\ variable = "soil_moisture")
                 => HasCol(cols, "deriv1") /\ HasCol(cols, "deriv2")
           /\ pc = "idle" => err = "none" /\ applied = PipelineOrder

\* C26: after any calls of run on one engine, with or without names, no
\* record carries the good marker together with another code, and the good
\* marker applied once more changes no qflag.
C26_GoodLastAndIdempotent ==
    Returned
        => /\ \A i \in Idx(data) :
                 GoodCode(numbers) \in Codes(data[i].qflag)
                    => Codes(data[i].qflag) = {GoodCode(numbers)}
           /\ "G" \in Range(applied)
                 => G(data, cols, GoodCode(numbers)) = Ok(data, cols)

\* D06 is the next detector of the running call, on a frame with soil
\* moisture.
AtSpikeDetector ==
    /\ pc = "running"
    /\ todo # <<>>
    /\ Head(todo) \in Range(FlagsDictKeys(numbers))
    /\ Method(Head(todo)) = "D06"
    /\ HasCol(cols, "soil_moisture")

\* round(x[i] / x[i-lag], 3) in thousandths, NaN when record i-lag is absent.
RatioToLag(d, i, lag) ==
    Quotient3(Cell(d, "soil_moisture", i), Cell(d, "soil_moisture", i - lag))

\* C27, as amended: the first ratio criterion of D06 at record i is
\* round(x[i] / x[i-1], 3), the current soil moisture over the value one
\* record earlier; the column built by shift(-1), division by x and shift(1)
\* equals this quantity for every i, and the criterion r1 > 1.15 or r1 < 0.85
\* is decided on it.
C27_RatioToPrevious ==
    AtSpikeDetector
        => LET eq4 == Eq4(data)
           IN \A i \in Idx(data) :
                 /\ eq4[i] = RatioToLag(data, i, 1)
                 /\ Eq4Out(data, i)
                       <=> ~IsNaN(eq4[i]) /\ (eq4[i] > 1150 \/ eq4[i] < 850)

\* C27: the column built by shift(-1), division by x and shift(1) is
\* round(x[i] / x[i-2], 3), the current soil moisture over the value two
\* records earlier, for every i.
C27_RatioToSecondPrevious ==
    AtSpikeDetector
        => \A i \in Idx(data) : Eq4(data)[i] = RatioToLag(data, i, 2)

\* D06 has run on a frame with a record whose ratio to the record before is
\* finite and differs from its ratio to the record two before.
C27_Witness ==
    /\ pc = "running"
    /\ applied # <<>>
    /\ applied[Len(applied)] = "D06"
    /\ \E i \in Idx(data) :
          /\ i >= 3
          /\ ~IsNaN(RatioToLag(data, i, 1))
          /\ RatioToLag(data, i, 1) \notin {Inf, 0 - Inf}
          /\ Eq4(data)[i] = RatioToLag(data, i, 1)
          /\ RatioToLag(data, i, 1) # RatioToLag(data, i, 2)

====
